---------------------------- MODULE Spec2Model ----------------------------
(***************************************************************************)
(* The timed batch runner of bench.py: do_cmds, the wrappers that build    *)
(* its batches (do_launch, do_list, do_delete, do_pause, do_copy,          *)
(* do_snapshot via do_fmt), record_batch and the SIGUSR1 handler.          *)
(*                                                                         *)
(* Strings built with str.format are modelled as tuples of their parts:    *)
(* "ctr-{i}-<backend>" is <<"ctr", i>>, "lxc launch img ctr-0-dir" is      *)
(* <<"lxc launch img", "ctr", 0>>.  An optional value is <<>> (None) or    *)
(* <<v>>.  Durations are whole seconds; the only time that passes is the   *)
(* time commands take.  The metric probes (free memory at entry and exit,  *)
(* load, disk) are assumed to succeed; of their values only the            *)
(* free+cached memory read at line 291 takes part in control flow, so the  *)
(* deltas and the pass-through columns backend, image and run_id are left  *)
(* out of the timings row.  A command runs to completion in one step:      *)
(* check_output has no timeout, and a signal that arrives while it runs    *)
(* is a handle_sigusr1 step taken before that step.                        *)
(*                                                                         *)
(* Spec calls the batches one by one, in any order; BenchSpec runs them    *)
(* from run_bench, with its try / except / finally around them.  The shell *)
(* steps of run_bench (setup_backend, import_image, delete_image,          *)
(* teardown_backend) either succeed or raise.                              *)
(***************************************************************************)
EXTENDS Integers, Sequences, FiniteSets, TLC

\* ------------------------------------------------------------------ bounds
MaxCount == 2
MaxBatches == 1
MaxBackends == 2
MaxBenchCount == 1

\* ------------------------------------------------- options (argparse defaults)
mem_threshold == 512
duration_threshold == 600

Counts == 0..MaxCount
MemValues == {mem_threshold, mem_threshold + 1}
Durations == {duration_threshold, duration_threshold + 1}

None == <<>>
Some(v) == <<v>>

NoMsg == <<0, "">>
SkipMsg == <<0, "skipping.">>
MemMsg == "ran out of memory"
DurMsg == "got impatient"
SigMsg == "user asked to halt."
AbortMsgs == {MemMsg, DurMsg, SigMsg}

VARIABLES
    sigusr_received,  \* module global set by handle_sigusr1
    sig_when,         \* history: <<batch number, pc, len(recs)>> when the flag was first set
    clock,            \* time.time()
    timings,          \* rows of table timings; the row id is the position
    recs_tbl,         \* rows of table recs
    pc,               \* "caller" or the position inside do_cmds
    nbatches,         \* number of do_cmds invocations so far
    batchname, cmds, count, targets_arg, record,   \* arguments of do_cmds
    targets, recs, completed_tgts,                 \* locals of do_cmds
    start_all, last_stoptime, dur,
    free_mem,         \* last value of get_free_mem(include_cached=True), line 291
    printed,          \* last message do_cmds printed: <<len(recs), reason>>
    executed,         \* commands handed to check_output by this invocation
    entry_db,         \* history: <<timings, recs_tbl>> when do_cmds was entered
    outcome,          \* how the last invocation ended
    ret,              \* value the last invocation returned
    rb_pc,            \* position inside run_bench, "off" when it is not running
    counts, image,    \* opts.counts.split(','), opts.image
    bidx, cidx,       \* positions of the loops over backends and counts
    launched, src, copies,   \* locals of run_bench
    pending,          \* an exception raised in the except clause awaits the finally
    set_up,           \* backends whose setup_backend returned
    entered,          \* history: backends whose try block was entered
    torn_down         \* backends teardown_backend was invoked for

args == <<batchname, cmds, count, targets_arg, record>>
locals == <<targets, recs, completed_tgts, start_all, last_stoptime, dur,
            free_mem, printed, executed>>
store == <<timings, recs_tbl>>
bench == <<rb_pc, counts, image, bidx, cidx, launched, src, copies, pending,
           set_up, entered, torn_down>>
batch == <<sigusr_received, sig_when, clock, timings, recs_tbl, pc, nbatches,
           batchname, cmds, count, targets_arg, record, targets, recs,
           completed_tgts, start_all, last_stoptime, dur, free_mem, printed,
           executed, entry_db, outcome, ret>>
vars == <<batch, bench>>

\* --------------------------------------------------------------- helpers
RECURSIVE SumDur(_)
SumDur(rs) == IF rs = <<>> THEN 0 ELSE rs[1][2] + SumDur(Tail(rs))

\* rows a previous run of the tool may have left in bench.db
OldTimings == << [batch |-> <<"launch">>, numrecs |-> 1, count |-> 1,
                  total_time |-> duration_threshold,
                  avg_time |-> [num |-> duration_threshold, den |-> 1]] >>
OldRecs == << [cmd |-> <<"lxc launch img", "ctr", 0>>,
               duration |-> duration_threshold, timings_id |-> 1] >>

\* --------------------------------------------------------------- handler
handle_sigusr1 ==
    /\ sigusr_received' = TRUE
    /\ sig_when' = IF sigusr_received THEN sig_when
                   ELSE <<nbatches, pc, Len(recs)>>
    /\ UNCHANGED <<clock, store, pc, nbatches, args, locals, entry_db,
                   outcome, ret>>

\* ------------------------------------------------------ batch builders
FmtTgts(tgtfmt, nexec) == [j \in 1..nexec |-> <<tgtfmt, j - 1>>]
FmtCmds(cmdfmt, tgtfmt, nexec) == [j \in 1..nexec |-> cmdfmt \o <<tgtfmt, j - 1>>]

\* run_bench reaches the batches after the first do_launch(count) only when
\* that launch returned: it completed a command (count >= 1) or was skipped
AfterLaunch(n) == n >= 1 \/ sigusr_received

\* the call of do_cmds: bind the arguments, fresh locals
call_do_cmds(name, cs, n, tgts, rec) ==
    /\ pc = "caller"
    /\ nbatches' = nbatches + 1
    /\ pc' = "entry"
    /\ batchname' = name
    /\ cmds' = cs
    /\ count' = n
    /\ targets_arg' = tgts
    /\ record' = rec
    /\ targets' = <<>>
    /\ recs' = <<>>
    /\ completed_tgts' = <<>>
    /\ start_all' = None
    /\ last_stoptime' = None
    /\ dur' = None
    /\ free_mem' = None
    /\ printed' = NoMsg
    /\ executed' = <<>>
    /\ entry_db' = store
    /\ outcome' = "running"
    /\ ret' = <<>>
    /\ UNCHANGED <<sigusr_received, sig_when, clock, store>>

do_fmt(name, cmdfmt, tgtfmt, n, rec) ==
    call_do_cmds(name, FmtCmds(cmdfmt, tgtfmt, n), n,
                 Some(FmtTgts(tgtfmt, n)), rec)

do_launch(n, rec) ==
    /\ rec \/ n = 1
    /\ do_fmt(<<"launch">>, <<"lxc launch img">>, "ctr", n, rec)

do_copy(source, n) ==
    /\ AfterLaunch(n)
    /\ do_fmt(<<"copy">>, <<"lxc copy">> \o source, "copy", n, TRUE)

\* lines 227-230; line 231 renames the list do_cmds returned, after the batch
do_snapshot(source, n) ==
    /\ AfterLaunch(n)
    /\ do_fmt(<<"snapshot">>, <<"lxc snapshot">> \o source, "snap", n, TRUE)

do_list(n, tag) ==
    /\ AfterLaunch(n)
    /\ call_do_cmds(<<"list-", tag>>, << <<"lxc list">> >>, n, None, TRUE)

do_delete(to_delete, tag, n) ==
    /\ AfterLaunch(n)
    /\ Len(to_delete) <= n
    /\ Len(to_delete) >= 1 \/ sigusr_received
    /\ call_do_cmds(<<"delete-", tag>>,
                 [j \in 1..Len(to_delete) |-> <<"lxc delete">> \o to_delete[j]],
                 n, None, TRUE)

do_pause(to_pause, n) ==
    /\ AfterLaunch(n)
    /\ call_do_cmds(<<"pause">>,
                 [j \in 1..Len(to_pause) |-> <<"lxc pause">> \o to_pause[j]],
                 n, None, FALSE)

\* the names run_bench hands on: src = launched[0], launched, copies
Sources == { <<"ctr", 0>> }
NameLists == { FmtTgts(p, n) : p \in {"ctr", "copy"}, n \in Counts }

\* ------------------------------------------------------------- do_cmds
Raise(exc) ==
    /\ pc' = "caller"
    /\ outcome' = exc
    /\ UNCHANGED ret

Return(v) ==
    /\ pc' = "caller"
    /\ outcome' = "returned"
    /\ ret' = v

\* variant: the flag is not looked at on entry
do_cmds_entry_nocheck ==
    /\ pc = "entry"
    /\ targets' = IF targets_arg = None THEN cmds ELSE targets_arg[1]
    /\ start_all' = Some(clock)
    /\ pc' = "loop"
    /\ UNCHANGED <<sigusr_received, sig_when, clock, store, nbatches, args,
                   recs, completed_tgts, last_stoptime, dur, free_mem, printed,
                   executed, entry_db, outcome, ret>>

\* lines 255-274
do_cmds_entry ==
    /\ pc = "entry"
    /\ IF sigusr_received
       THEN /\ printed' = SkipMsg
            /\ Return(<<>>)
            /\ UNCHANGED <<targets, start_all, clock>>
       ELSE LET tg == IF targets_arg = None THEN cmds ELSE targets_arg[1] IN
            /\ targets' = tg
            /\ IF Len(cmds) = Len(tg)
               THEN /\ start_all' = Some(clock)
                    /\ pc' = "loop"
                    /\ UNCHANGED <<outcome, ret>>
               ELSE /\ Raise("AssertionError")
                    /\ UNCHANGED start_all
            /\ UNCHANGED <<printed, clock>>
    /\ UNCHANGED <<sigusr_received, sig_when, store, nbatches, args, recs,
                   completed_tgts, last_stoptime, dur, free_mem, executed,
                   entry_db>>

AppendFront(s, e) == <<e>> \o s
AppendTgt(s, e) == Append(s, e)

\* variant: a failed command ends the loop like an abort
do_cmds_run_break(ok, d) ==
    /\ pc = "loop"
    /\ Len(recs) < Len(cmds)
    /\ LET k == Len(recs) + 1
           start == clock
       IN /\ executed' = Append(executed, cmds[k])
          /\ clock' = clock + d
          /\ IF ok
             THEN /\ completed_tgts' = Append(completed_tgts, targets[k])
                  /\ last_stoptime' = Some(clock')
                  /\ dur' = Some(clock' - start)
                  /\ recs' = Append(recs, <<cmds[k], clock' - start>>)
                  /\ pc' = "chk_mem"
             ELSE /\ pc' = "post"
                  /\ UNCHANGED <<completed_tgts, last_stoptime, dur, recs>>
    /\ UNCHANGED <<sigusr_received, sig_when, store, nbatches, args, targets,
                   start_all, free_mem, printed, entry_db, outcome, ret>>

\* lines 275-289: one iteration up to recs.append
do_cmds_run(ok, d) ==
    /\ pc = "loop"
    /\ Len(recs) < Len(cmds)
    /\ LET k == Len(recs) + 1
           cmd == cmds[k]
           tgt == targets[k]
           start == clock
       IN /\ executed' = Append(executed, cmd)
          /\ clock' = clock + d
          /\ IF ok
             THEN /\ completed_tgts' = AppendTgt(completed_tgts, tgt)
                  /\ last_stoptime' = Some(clock')
                  /\ dur' = Some(clock' - start)
                  /\ recs' = Append(recs, <<cmd, clock' - start>>)
                  /\ pc' = "chk_mem"
                  /\ UNCHANGED <<outcome, ret>>
             ELSE /\ Raise("Fatal ERROR")
                  /\ UNCHANGED <<completed_tgts, last_stoptime, dur, recs>>
    /\ UNCHANGED <<sigusr_received, sig_when, store, nbatches, args, targets,
                   start_all, free_mem, printed, entry_db>>

\* line 275: the zip is exhausted
do_cmds_loop_end ==
    /\ pc = "loop"
    /\ Len(recs) = Len(cmds)
    /\ pc' = "post"
    /\ UNCHANGED <<sigusr_received, sig_when, clock, store, nbatches, args,
                   locals, entry_db, outcome, ret>>

MemAbortStrict(m) == m < mem_threshold
MemAbort(m) == m <= mem_threshold

DurAbortGeq(d) == d >= duration_threshold
DurAbort(d) == d > duration_threshold

Break(reason) ==
    /\ printed' = <<Len(recs), reason>>
    /\ pc' = "post"

\* variant: the stop flag is looked at before the memory value
check_mem_sigfirst(m) ==
    /\ pc = "chk_mem"
    /\ free_mem' = Some(m)
    /\ IF sigusr_received
       THEN Break(SigMsg)
       ELSE IF MemAbort(m)
            THEN Break(MemMsg)
            ELSE pc' = "chk_dur" /\ UNCHANGED printed
    /\ UNCHANGED <<sigusr_received, sig_when, clock, store, nbatches, args,
                   targets, recs, completed_tgts, start_all, last_stoptime,
                   dur, executed, entry_db, outcome, ret>>

\* lines 291-293
check_mem(m) ==
    /\ pc = "chk_mem"
    /\ free_mem' = Some(m)
    /\ IF MemAbort(m)
       THEN Break(MemMsg)
       ELSE pc' = "chk_dur" /\ UNCHANGED printed
    /\ UNCHANGED <<sigusr_received, sig_when, clock, store, nbatches, args,
                   targets, recs, completed_tgts, start_all, last_stoptime,
                   dur, executed, entry_db, outcome, ret>>

\* lines 294-296
check_dur ==
    /\ pc = "chk_dur"
    /\ IF DurAbort(dur[1])
       THEN Break(DurMsg)
       ELSE pc' = "chk_sig" /\ UNCHANGED printed
    /\ UNCHANGED <<sigusr_received, sig_when, clock, store, nbatches, args,
                   targets, recs, completed_tgts, start_all, last_stoptime,
                   dur, free_mem, executed, entry_db, outcome, ret>>

\* variant: the stop flag never ends the loop
check_sig_nobreak ==
    /\ pc = "chk_sig"
    /\ pc' = "loop"
    /\ UNCHANGED <<sigusr_received, sig_when, clock, store, nbatches, args,
                   locals, entry_db, outcome, ret>>

\* lines 297-299
check_sig ==
    /\ pc = "chk_sig"
    /\ IF sigusr_received
       THEN Break(SigMsg)
       ELSE pc' = "loop" /\ UNCHANGED printed
    /\ UNCHANGED <<sigusr_received, sig_when, clock, store, nbatches, args,
                   targets, recs, completed_tgts, start_all, last_stoptime,
                   dur, free_mem, executed, entry_db, outcome, ret>>

\* ---------------------------------------------------------- record_batch
\* line 313; the quotient is kept as numerator and denominator
RecAvg(rs) == [num |-> SumDur(rs), den |-> Len(rs)]

NumRecsCount(rs, n) == n
NumRecs(rs, n) == Len(rs)

\* lines 315-321
TimingsRow(name, time_all, rs, n) ==
    [batch |-> name, numrecs |-> NumRecs(rs, n), count |-> n,
     total_time |-> time_all, avg_time |-> RecAvg(rs)]

\* lines 322-325
RecsRows(rs, timings_id) ==
    [j \in 1..Len(rs) |->
        [cmd |-> rs[j][1], duration |-> rs[j][2], timings_id |-> timings_id]]

RecordAlways(rec) == TRUE
ShouldRecord(rec) == rec

\* lines 300-308, with record_batch (311-327) inlined
do_cmds_finish ==
    /\ pc = "post"
    /\ IF last_stoptime = None
       THEN Raise("TypeError") /\ UNCHANGED store
       ELSE LET time_all == last_stoptime[1] - start_all[1] IN
            IF ShouldRecord(record)
            THEN IF Len(recs) = 0
                 THEN Raise("ZeroDivisionError") /\ UNCHANGED store
                 ELSE /\ timings' = Append(timings,
                                 TimingsRow(batchname, time_all, recs, count))
                      /\ recs_tbl' = recs_tbl \o RecsRows(recs, Len(timings) + 1)
                      /\ Return(completed_tgts)
            ELSE Return(completed_tgts) /\ UNCHANGED store
    /\ UNCHANGED <<sigusr_received, sig_when, clock, nbatches, args, locals,
                   entry_db>>

\* --------------------------------------------------------- specification
BatchInit ==
    /\ sigusr_received = FALSE
    /\ sig_when = <<0, "never", 0>>
    /\ clock = 0
    /\ \/ timings = <<>> /\ recs_tbl = <<>>
       \/ timings = OldTimings /\ recs_tbl = OldRecs
    /\ pc = "caller"
    /\ nbatches = 0
    /\ batchname = <<>>
    /\ cmds = <<>>
    /\ count = 0
    /\ targets_arg = None
    /\ record = FALSE
    /\ targets = <<>>
    /\ recs = <<>>
    /\ completed_tgts = <<>>
    /\ start_all = None
    /\ last_stoptime = None
    /\ dur = None
    /\ free_mem = None
    /\ printed = NoMsg
    /\ executed = <<>>
    /\ entry_db = <<timings, recs_tbl>>
    /\ outcome = "none"
    /\ ret = <<>>

\* run_bench is not running: the batches are called one by one
Init ==
    /\ BatchInit
    /\ rb_pc = "off"
    /\ counts = <<>>
    /\ image = "busybox"
    /\ bidx = 1
    /\ cidx = 1
    /\ launched = <<>>
    /\ src = <<>>
    /\ copies = <<>>
    /\ pending = FALSE
    /\ set_up = <<>>
    /\ entered = <<>>
    /\ torn_down = <<>>

\* a caller outside run_bench makes at most MaxBatches calls
FreeCall == nbatches < MaxBatches /\ UNCHANGED bench

Next ==
    \/ handle_sigusr1 /\ UNCHANGED bench
    \/ \E n \in Counts, rec \in BOOLEAN : do_launch(n, rec) /\ FreeCall
    \/ \E n \in Counts : do_list(n, "containers") /\ FreeCall
    \/ \E l \in NameLists, n \in Counts : do_delete(l, "containers", n) /\ FreeCall
    \/ \E s \in Sources, n \in Counts : do_pause(<<s>>, n) /\ FreeCall
    \/ \E s \in Sources, n \in Counts : do_copy(s, n) /\ FreeCall
    \/ \E s \in Sources, n \in Counts : do_snapshot(s, n) /\ FreeCall
    \/ do_cmds_entry /\ UNCHANGED bench
    \/ \E ok \in BOOLEAN, d \in Durations : do_cmds_run(ok, d) /\ UNCHANGED bench
    \/ do_cmds_loop_end /\ UNCHANGED bench
    \/ \E m \in MemValues : check_mem(m) /\ UNCHANGED bench
    \/ check_dur /\ UNCHANGED bench
    \/ check_sig /\ UNCHANGED bench
    \/ do_cmds_finish /\ UNCHANGED bench

Spec == Init /\ [][Next]_vars

\* -------------------------------------------------------------- run_bench
\* opts.backends.split(','): the first MaxBackends of the default list
DefaultBackends == <<"lvm", "zfs", "dir", "btrfs">>
BackendList == SubSeq(DefaultBackends, 1, MaxBackends)
\* opts.counts.split(','): one count; opts.image: the default
CountsLists == { <<n>> : n \in 0..MaxBenchCount }
Images == {"ubuntu"}
\* under run_bench every command takes the same time; the batches still end
\* early on the memory condition and on the stop flag
BenchDurations == {duration_threshold}

backend == BackendList[bidx]
CurCount == counts[cidx]

\* an exception leaves run_bench
Propagate ==
    /\ rb_pc' = "raised"
    /\ UNCHANGED <<counts, image, bidx, cidx, launched, src, copies, pending,
                   set_up, entered>>

\* lines 382-386
setup_backend(ok) ==
    /\ rb_pc = "for_backend"
    /\ bidx <= Len(BackendList)
    /\ IF ok
       THEN /\ set_up' = Append(set_up, backend)
            /\ rb_pc' = "import"
            /\ UNCHANGED <<counts, image, bidx, cidx, launched, src, copies,
                           pending, entered>>
       ELSE Propagate /\ UNCHANGED set_up
    /\ UNCHANGED <<batch, torn_down>>

\* line 382: no backend is left
run_bench_return ==
    /\ rb_pc = "for_backend"
    /\ bidx > Len(BackendList)
    /\ rb_pc' = "returned"
    /\ UNCHANGED <<batch, counts, image, bidx, cidx, launched, src, copies,
                   pending, set_up, entered, torn_down>>

\* lines 387-390: import_image is called before the try statement
import_image(ok) ==
    /\ rb_pc = "import"
    /\ IF ok
       THEN /\ rb_pc' = "for_count"
            /\ cidx' = 1
            /\ entered' = Append(entered, backend)
            /\ UNCHANGED <<counts, image, bidx, launched, src, copies,
                           pending, set_up>>
       ELSE Propagate
    /\ UNCHANGED <<batch, torn_down>>

\* a call of a batch from the try block
CallFrom(here, there) ==
    /\ rb_pc = here
    /\ rb_pc' = there
    /\ UNCHANGED <<counts, image, bidx, cidx, launched, src, copies, pending,
                   set_up, entered, torn_down>>

\* lines 391-396
rb_launch ==
    /\ cidx <= Len(counts)
    /\ CallFrom("for_count", "launch_ret")
    /\ do_launch(CurCount, TRUE)

\* line 391: no count is left, the try block ends
rb_counts_done ==
    /\ rb_pc = "for_count"
    /\ cidx > Len(counts)
    /\ rb_pc' = "finally"
    /\ UNCHANGED <<batch, counts, image, bidx, cidx, launched, src, copies,
                   pending, set_up, entered, torn_down>>

\* line 398
rb_list ==
    /\ CallFrom("list", "list_ret")
    /\ do_list(CurCount, "containers")

\* line 400
rb_delete ==
    /\ CallFrom("delete", "delete_ret")
    /\ do_delete(launched, "containers", CurCount)

\* line 402
rb_launch_src ==
    /\ CallFrom("launch_src", "launch_src_ret")
    /\ do_launch(1, FALSE)

\* lines 405-406: wait_for_cloudinit_done gives up after 20 failed attempts
\* or raises (NameError at line 201 once an attempt succeeded)
wait_for_cloudinit_done(ok) ==
    /\ rb_pc = "cloudinit"
    /\ rb_pc' = IF ok THEN "pause" ELSE "except"
    /\ UNCHANGED <<batch, counts, image, bidx, cidx, launched, src, copies,
                   pending, set_up, entered, torn_down>>

\* line 408
rb_pause ==
    /\ CallFrom("pause", "pause_ret")
    /\ do_pause(<<src>>, CurCount)

\* line 410
rb_copy ==
    /\ CallFrom("copy", "copy_ret")
    /\ do_copy(src, CurCount)

\* line 411
rb_list_copies ==
    /\ CallFrom("list_copies", "list_copies_ret")
    /\ do_list(CurCount, "copies")

\* line 413
rb_delete_copies ==
    /\ CallFrom("delete_copies", "delete_copies_ret")
    /\ do_delete(copies, "copies", CurCount)

\* line 416
rb_snapshot ==
    /\ CallFrom("snapshot", "snapshot_ret")
    /\ do_snapshot(src, CurCount)

\* lines 419-420
rb_delete_src ==
    /\ CallFrom("delete_src", "delete_src_ret")
    /\ do_delete(<<src>>, "container-with-snaps", CurCount)

RetSteps == {"launch_ret", "list_ret", "delete_ret", "launch_src_ret",
             "pause_ret", "copy_ret", "list_copies_ret", "delete_copies_ret",
             "snapshot_ret", "delete_src_ret"}

\* where the try block goes on after a batch returned
AfterRet(step) ==
    CASE step = "launch_ret" -> "list"
      [] step = "list_ret" -> "delete"
      [] step = "delete_ret" -> "launch_src"
      [] step = "launch_src_ret" ->
            IF Len(ret) > 0
            THEN IF image = "ubuntu" THEN "cloudinit" ELSE "pause"
            ELSE "clean"
      [] step = "pause_ret" -> "copy"
      [] step = "copy_ret" -> "list_copies"
      [] step = "list_copies_ret" -> "delete_copies"
      [] step = "delete_copies_ret" -> "snapshot"
      [] step = "snapshot_ret" -> "delete_src"
      [] step = "delete_src_ret" -> "clean"

\* a batch called from the try block has returned or raised (lines 396-423)
rb_batch_done ==
    /\ rb_pc \in RetSteps
    /\ pc = "caller"
    /\ IF outcome = "returned"
       THEN /\ rb_pc' = AfterRet(rb_pc)
            /\ launched' = IF rb_pc \in {"launch_ret", "launch_src_ret"}
                           THEN ret ELSE launched
            /\ src' = IF rb_pc = "launch_src_ret" /\ Len(ret) > 0
                      THEN ret[1] ELSE src
            /\ copies' = IF rb_pc = "copy_ret" THEN ret ELSE copies
       ELSE /\ rb_pc' = "except"
            /\ UNCHANGED <<launched, src, copies>>
    /\ UNCHANGED <<batch, counts, image, bidx, cidx, pending, set_up, entered,
                   torn_down>>

\* lines 421-422, then the next count
rb_check_clean ==
    /\ rb_pc = "clean"
    /\ rb_pc' = "for_count"
    /\ cidx' = cidx + 1
    /\ UNCHANGED <<batch, counts, image, bidx, launched, src, copies, pending,
                   set_up, entered, torn_down>>

\* lines 423-427: input() may raise (EOFError); the finally clause still runs
rb_except(input_ok) ==
    /\ rb_pc = "except"
    /\ rb_pc' = "finally"
    /\ pending' = ~input_ok
    /\ UNCHANGED <<batch, counts, image, bidx, cidx, launched, src, copies,
                   set_up, entered, torn_down>>

\* line 430, lines 75-76
delete_image(ok) ==
    /\ rb_pc = "finally"
    /\ IF ok
       THEN /\ rb_pc' = "teardown"
            /\ UNCHANGED <<counts, image, bidx, cidx, launched, src, copies,
                           pending, set_up, entered>>
       ELSE Propagate
    /\ UNCHANGED <<batch, torn_down>>

\* lines 431-433
teardown_backend(ok) ==
    /\ rb_pc = "teardown"
    /\ torn_down' = Append(torn_down, backend)
    /\ IF ok /\ ~pending
       THEN /\ rb_pc' = "for_backend"
            /\ bidx' = bidx + 1
            /\ UNCHANGED <<counts, image, cidx, launched, src, copies, pending,
                           set_up, entered>>
       ELSE Propagate
    /\ UNCHANGED batch

BenchInit ==
    /\ BatchInit
    /\ timings = <<>>
    /\ rb_pc = "for_backend"
    /\ counts \in CountsLists
    /\ image \in Images
    /\ bidx = 1
    /\ cidx = 1
    /\ launched = <<>>
    /\ src = <<>>
    /\ copies = <<>>
    /\ pending = FALSE
    /\ set_up = <<>>
    /\ entered = <<>>
    /\ torn_down = <<>>

BenchNext ==
    \/ handle_sigusr1 /\ UNCHANGED bench
    \/ \E ok \in BOOLEAN : setup_backend(ok)
    \/ run_bench_return
    \/ \E ok \in BOOLEAN : import_image(ok)
    \/ rb_launch
    \/ rb_counts_done
    \/ rb_list
    \/ rb_delete
    \/ rb_launch_src
    \/ \E ok \in BOOLEAN : wait_for_cloudinit_done(ok)
    \/ rb_pause
    \/ rb_copy
    \/ rb_list_copies
    \/ rb_delete_copies
    \/ rb_snapshot
    \/ rb_delete_src
    \/ rb_batch_done
    \/ rb_check_clean
    \/ \E input_ok \in BOOLEAN : rb_except(input_ok)
    \/ \E ok \in BOOLEAN : delete_image(ok)
    \/ \E ok \in BOOLEAN : teardown_backend(ok)
    \/ do_cmds_entry /\ UNCHANGED bench
    \/ \E ok \in BOOLEAN, d \in BenchDurations : do_cmds_run(ok, d) /\ UNCHANGED bench
    \/ do_cmds_loop_end /\ UNCHANGED bench
    \/ \E m \in MemValues : check_mem(m) /\ UNCHANGED bench
    \/ check_dur /\ UNCHANGED bench
    \/ check_sig /\ UNCHANGED bench
    \/ do_cmds_finish /\ UNCHANGED bench

BenchSpec == BenchInit /\ [][BenchNext]_vars

\* ----------------------------------------------------------------- claims
Finished == pc = "caller" /\ outcome \notin {"none", "running"}
Stopped == pc \in {"post", "caller"} /\ printed[2] \in AbortMsgs
FmtBatches == { <<"launch">>, <<"copy">>, <<"snapshot">> }

\* the result store holds what it held on entry plus one timings row
OneRowAdded ==
    /\ Len(timings) = Len(entry_db[1]) + 1
    /\ SubSeq(timings, 1, Len(entry_db[1])) = entry_db[1]
LastRow == timings[Len(timings)]

\* the flag was set before this invocation looked at it on entry
SigBeforeEntry ==
    /\ sig_when[2] # "never"
    /\ \/ sig_when[1] < nbatches
       \/ sig_when[1] = nbatches /\ sig_when[2] = "entry"

\* the flag was set, in this invocation, after command sig_when[3] completed
\* and before the stop check that follows it was evaluated
SigBeforeStopCheck ==
    /\ sig_when[1] = nbatches
    /\ sig_when[2] \in {"chk_mem", "chk_dur", "chk_sig"}

\* the flag was already set when the checks after the last command began
SigBeforeChecks ==
    /\ sig_when[1] = nbatches
    /\ \/ sig_when[2] = "loop" /\ sig_when[3] = Len(recs) - 1
       \/ sig_when[2] = "chk_mem" /\ sig_when[3] = Len(recs)

(* C1: once a command of the batch has failed (it was handed to           *)
(* check_output and no record was appended for it), do_cmds has raised    *)
(* "Fatal ERROR", the failed command is the last one executed, and the     *)
(* result store is what it was on entry, whatever record says.             *)
C1_FatalNoPersist ==
    Len(executed) > Len(recs) =>
        /\ pc = "caller"
        /\ outcome = "Fatal ERROR"
        /\ executed = SubSeq(cmds, 1, Len(recs) + 1)
        /\ completed_tgts = SubSeq(targets, 1, Len(recs))
        /\ store = entry_db

C1_Witness ==
    /\ outcome = "Fatal ERROR"
    /\ record
    /\ Len(recs) >= 1
    /\ Len(executed) = Len(recs) + 1

(* C2: the number of records never exceeds the number of commands, and     *)
(* when do_cmds has returned normally the returned list is the targets of  *)
(* the first len(recs) pairs in their order, the records are those of the  *)
(* first len(recs) commands and exactly those commands were executed.      *)
C2_CompletedPrefix ==
    /\ Len(recs) <= Len(cmds)
    /\ (pc = "caller" /\ outcome = "returned") =>
          /\ Len(ret) = Len(recs)
          /\ ret = SubSeq(targets, 1, Len(recs))
          /\ \A j \in 1..Len(recs) : recs[j][1] = cmds[j]
          /\ executed = SubSeq(cmds, 1, Len(recs))

C2_Witness ==
    /\ pc = "caller"
    /\ outcome = "returned"
    /\ Len(ret) = 2
    /\ ret[1] # ret[2]

(* C3 as stated: when every command succeeded and no abort condition was   *)
(* met, the returned list is as long as the command list and the row       *)
(* persisted has numrecs equal to the requested count, for do_fmt, do_list *)
(* and do_delete batches alike.                                            *)
C3_Original ==
    (pc = "caller" /\ outcome = "returned" /\ printed = NoMsg) =>
        /\ Len(ret) = Len(cmds)
        /\ record => /\ OneRowAdded
                     /\ LastRow.numrecs = count

(* C3 amended: when every command succeeded and no abort condition was met *)
(* a batch of at least one command returns a list as long as the command   *)
(* list and, if record is set, persists one row whose numrecs is the       *)
(* number of commands and whose count is the requested count; the two are  *)
(* equal for the batches do_fmt builds.  A batch without commands persists *)
(* nothing.                                                                *)
C3_NumrecsIsBatchLength ==
    (Finished /\ Len(executed) = Len(recs) /\ printed = NoMsg) =>
        IF Len(cmds) = 0
        THEN store = entry_db
        ELSE /\ outcome = "returned"
             /\ Len(ret) = Len(cmds)
             /\ IF record
                THEN /\ OneRowAdded
                     /\ LastRow.numrecs = Len(cmds)
                     /\ LastRow.count = count
                     /\ batchname \in FmtBatches => LastRow.numrecs = count
                ELSE store = entry_db

C3_Witness ==
    /\ pc = "caller"
    /\ outcome = "returned"
    /\ printed = NoMsg
    /\ record
    /\ batchname = <<"copy">>
    /\ count = 2
    /\ Len(ret) = 2
    /\ Len(timings) = Len(entry_db[1]) + 1

(* C4: once the handler has run the flag stays set, and an invocation      *)
(* entered with the flag set executes no command, appends no record,       *)
(* leaves the result store alone and returns the empty list.               *)
C4_StopAtEntry ==
    /\ sig_when[2] # "never" => sigusr_received
    /\ (nbatches >= 1 /\ SigBeforeEntry) =>
          /\ pc \in {"entry", "caller"}
          /\ executed = <<>>
          /\ recs = <<>>
          /\ store = entry_db
          /\ pc = "caller" => (outcome = "returned" /\ ret = <<>>)

C4_Witness ==
    /\ SigBeforeEntry
    /\ pc = "caller"
    /\ outcome = "returned"
    /\ Len(cmds) >= 1
    /\ record
    /\ ret = <<>>

(* C5 as stated: if the flag is set at any point after command k           *)
(* completed, k < n, and neither the memory nor the duration condition     *)
(* ended the loop, there are exactly k records and command k+1 is never    *)
(* executed.                                                               *)
C5_Original ==
    ( /\ sig_when[1] = nbatches
      /\ sig_when[2] \in {"loop", "chk_mem", "chk_dur", "chk_sig"}
      /\ sig_when[3] >= 1
      /\ sig_when[3] < Len(cmds)
      /\ printed[2] \notin {MemMsg, DurMsg} ) =>
        /\ Len(executed) = sig_when[3]
        /\ Len(recs) = sig_when[3]

(* C5 amended: if the flag is set after command k completed and before the *)
(* stop check that follows command k is evaluated, there are exactly k     *)
(* records and command k+1 is never executed; if it is set after that      *)
(* check, at most one further command is executed.                         *)
C5_StopAfterK ==
    /\ SigBeforeStopCheck =>
          /\ Len(executed) = sig_when[3]
          /\ Len(recs) = sig_when[3]
          /\ pc \in {"chk_mem", "chk_dur", "chk_sig", "post", "caller"}
    /\ (sig_when[1] = nbatches /\ sig_when[2] = "loop") =>
          Len(executed) <= sig_when[3] + 1

C5_Witness ==
    /\ SigBeforeStopCheck
    /\ sig_when[2] = "chk_dur"
    /\ sig_when[3] = 1
    /\ Len(cmds) = 2
    /\ pc = "caller"
    /\ outcome = "returned"
    /\ printed = <<1, SigMsg>>

(* C6: when the memory value read after command k is at or below           *)
(* mem_threshold the loop has ended with exactly k records, the commands   *)
(* executed are the first k, and the reason printed is the memory one; a   *)
(* value above the threshold never gives the memory reason.                *)
C6_MemAbort ==
    /\ (free_mem # None /\ free_mem[1] <= mem_threshold) =>
          /\ pc \in {"post", "caller"}
          /\ Len(recs) >= 1
          /\ printed = <<Len(recs), MemMsg>>
          /\ executed = SubSeq(cmds, 1, Len(recs))
    /\ (free_mem # None /\ free_mem[1] > mem_threshold) => printed[2] # MemMsg

C6_Witness ==
    /\ free_mem = Some(mem_threshold)
    /\ Len(recs) = 1
    /\ Len(cmds) = 2
    /\ pc = "caller"
    /\ outcome = "returned"

(* C7: a command that took longer than duration_threshold has completed    *)
(* and has its target and record appended; no command is executed after    *)
(* it and the loop ends; a duration equal to the threshold never gives the *)
(* duration reason.                                                        *)
C7_DurAbort ==
    /\ (dur # None /\ dur[1] > duration_threshold) =>
          /\ pc \in {"chk_mem", "chk_dur", "post", "caller"}
          /\ executed = SubSeq(cmds, 1, Len(recs))
          /\ recs[Len(recs)] = <<cmds[Len(recs)], dur[1]>>
          /\ completed_tgts = SubSeq(targets, 1, Len(recs))
          /\ pc \in {"post", "caller"} =>
                (printed[1] = Len(recs) /\ printed[2] \in {MemMsg, DurMsg})
    /\ printed[2] = DurMsg => dur[1] > duration_threshold

C7_Witness ==
    /\ dur = Some(duration_threshold + 1)
    /\ printed = <<1, DurMsg>>
    /\ Len(cmds) = 2
    /\ completed_tgts = <<targets[1]>>
    /\ pc = "caller"

(* C8: after an abort do_cmds returns the completed targets normally; with *)
(* record set it has added exactly one timings row, whose numrecs is the   *)
(* number of completed commands, and one recs row per completed command;   *)
(* with record unset the commands were executed and the store is untouched.*)
C8_AbortPersists ==
    (pc = "caller" /\ printed[2] \in AbortMsgs) =>
        /\ outcome = "returned"
        /\ ret = completed_tgts
        /\ Len(ret) = printed[1]
        /\ Len(ret) >= 1
        /\ executed = SubSeq(cmds, 1, Len(ret))
        /\ IF record
           THEN /\ OneRowAdded
                /\ LastRow.numrecs = Len(ret)
                /\ recs_tbl = entry_db[2] \o
                      [j \in 1..Len(ret) |->
                          [cmd |-> cmds[j], duration |-> recs[j][2],
                           timings_id |-> Len(timings)]]
           ELSE store = entry_db

C8_Witness ==
    /\ pc = "caller"
    /\ printed = <<1, SigMsg>>
    /\ record
    /\ Len(cmds) = 2
    /\ Len(timings) = Len(entry_db[1]) + 1

(* C9: an invocation that has ended without executing any command has      *)
(* returned the empty list normally.                                       *)
C9_EmptyBatchReturns ==
    (Finished /\ executed = <<>>) => (outcome = "returned" /\ ret = <<>>)

(* C10 as stated: when the loop has ended on an abort and the flag was     *)
(* already set when the checks after the last command began, the reason    *)
(* printed is the stop-signal one; the duration reason is printed only     *)
(* when the memory condition did not hold.                                 *)
C10_Original ==
    Stopped =>
        /\ SigBeforeChecks => printed[2] = SigMsg
        /\ printed[2] = DurMsg => free_mem[1] > mem_threshold

(* C10 amended: the conditions are evaluated in the order memory, duration,*)
(* stop signal: the reason printed is the memory one whenever the memory   *)
(* condition holds, else the duration one whenever the duration condition  *)
(* holds, else the stop-signal one; a later check is reached only when the *)
(* earlier conditions do not hold.                                         *)
C10_CheckOrder ==
    /\ Stopped =>
          /\ printed[2] = IF free_mem[1] <= mem_threshold THEN MemMsg
                          ELSE IF dur[1] > duration_threshold THEN DurMsg
                          ELSE SigMsg
          /\ printed[2] = SigMsg => sigusr_received
    /\ pc \in {"chk_dur", "chk_sig"} => free_mem[1] > mem_threshold
    /\ pc = "chk_sig" => dur[1] <= duration_threshold

C10_Witness ==
    /\ Stopped
    /\ SigBeforeChecks
    /\ printed[2] = MemMsg
    /\ dur[1] > duration_threshold

(* C11: when run_bench has ended, by returning or by an exception, or is   *)
(* about to set up the next backend, teardown_backend has been invoked     *)
(* for every backend that was set up and whose batches were started,       *)
(* whatever the batches and the image deletion did.                        *)
C11_TeardownInvoked ==
    rb_pc \in {"for_backend", "returned", "raised"} =>
        \A j \in 1..Len(entered) :
            \E i \in 1..Len(torn_down) : torn_down[i] = entered[j]

=============================================================================
